---- MODULE Spec2Model ----
\* A model of docs/examples/python/metadata_client.py: the CODAP metadata
\* client (CODAPMetadataClient), its error classes and its convenience
\* methods.  The client holds no state of its own between calls, so the
\* state of the model is what the server answers, the most recent call, the
\* request it put on the wire and what the caller observed.
EXTENDS Integers, Sequences, FiniteSets, TLC

VARIABLES
    json_error_wrapped, \* installed requests: Response.json() raises a RequestException subclass
    json_error_errno,   \* installed requests: that subclass prints itself as an OSError does
    accept_encoding,    \* installed requests: the Accept-Encoding a new Session starts with
    index_names_type,   \* installed Python: the error of str[str] names the type of the index
    server,             \* what session.get meets: a response, or a transport failure
    calls,              \* public client methods called so far
    sent,               \* session.get calls made so far
    last_call,          \* [op, arg] of the most recent call
    last_requests,      \* the requests the most recent call handed to session.get
    last_result         \* what the most recent call returned or raised

vars == <<json_error_wrapped, json_error_errno, accept_encoding, index_names_type, server,
          calls, sent, last_call, last_requests, last_result>>

\* ------------------------------------------------------------------ bounds

MaxCalls == 2

\* --------------------------------------------------------- Python values
\* Every Python value carries its type, so that None, "unknown", [] and {}
\* stay distinct.

PyNone == [kind |-> "NoneType", val |-> <<>>]
PyStr(s) == [kind |-> "str", val |-> s]
PyInt(n) == [kind |-> "int", val |-> n]
PyBool(b) == [kind |-> "bool", val |-> b]
PyList(s) == [kind |-> "list", val |-> s]
\* A dict keeps its keys in insertion order: keys lists them, val maps them.
PyDict(keys, d) == [kind |-> "dict", keys |-> keys, val |-> d]
EmptyDict == PyDict(<<>>, <<>>)

\* The outcome of running a piece of Python: a returned value or a raised
\* exception.
Return(v) == [kind |-> "return", value |-> v]
Raise(e) == [kind |-> "raise", exc |-> e]

\* An exception of a builtin class (no code, no status_code attribute).
Builtin(cls, message) == [cls |-> cls, message |-> message]

\* The printable characters of ASCII, which repr leaves as they are.  The grave
\* accent cannot be written in a string of this language and is left out.
PrintableText ==
    " !\"#$%&'()*+,-./0123456789:;<=>?@ABCDEFGHIJKLMNOPQRSTUVWXYZ[\\]^_abcdefghijklmnopqrstuvwxyz{|}~"
PrintableAscii ==
    {SubSeq(PrintableText, i, i) : i \in 1..Len(PrintableText)}

\* c occurs in s.
Has(s, c) == \E i \in 1..Len(s) : SubSeq(s, i, i) = c

\* The quote repr puts around a str: double quotes when the str holds a
\* single quote and no double quote, single quotes otherwise.
ReprQuote(s) ==
    IF Has(s, "'") /\ ~Has(s, "\"") THEN "\"" ELSE "'"

\* One character of a str as repr writes it between the given quotes.  It is
\* defined on printable ASCII, tab, newline, carriage return and form feed;
\* the other control characters and the characters beyond ASCII have no arm.
ReprChar(c, quote) ==
    CASE c = "\\" -> "\\\\"
      [] c = "\t" -> "\\t"
      [] c = "\n" -> "\\n"
      [] c = "\r" -> "\\r"
      [] c = "\f" -> "\\x0c"
      [] c = quote -> "\\" \o c
      [] c \in PrintableAscii \ {"\\", quote} -> c

\* The characters of a str from the i-th on, as repr writes them.
RECURSIVE ReprChars(_, _, _)
ReprChars(s, i, quote) ==
    IF i > Len(s) THEN ""
    ELSE ReprChar(SubSeq(s, i, i), quote) \o ReprChars(s, i + 1, quote)

\* repr of a str.
ReprStr(s) ==
    ReprQuote(s) \o ReprChars(s, 1, ReprQuote(s)) \o ReprQuote(s)

\* repr(v), which str() of a list or dict applies to what it holds.
RECURSIVE Repr(_), ReprItems(_, _), ReprEntries(_, _)
Repr(v) ==
    CASE v.kind = "str" -> ReprStr(v.val)
      [] v.kind = "int" -> ToString(v.val)
      [] v.kind = "NoneType" -> "None"
      [] v.kind = "bool" -> IF v.val THEN "True" ELSE "False"
      [] v.kind = "list" -> "[" \o ReprItems(v.val, 1) \o "]"
      [] v.kind = "dict" -> "{" \o ReprEntries(v, 1) \o "}"

\* The items of a list from the i-th on, separated by ", ".
ReprItems(items, i) ==
    IF i > Len(items) THEN ""
    ELSE Repr(items[i]) \o
         (IF i < Len(items) THEN ", " \o ReprItems(items, i + 1) ELSE "")

\* The key: value pairs of a dict from the i-th key on, in insertion order.
ReprEntries(d, i) ==
    IF i > Len(d.keys) THEN ""
    ELSE ReprStr(d.keys[i]) \o ": " \o Repr(d.val[d.keys[i]]) \o
         (IF i < Len(d.keys) THEN ", " \o ReprEntries(d, i + 1) ELSE "")

\* str(v) as the f-strings of the client use it: a str is taken as it is,
\* every other value as its repr.
Format(v) ==
    IF v.kind = "str" THEN v.val ELSE Repr(v)

\* Python truthiness, as `if api_version:` and `response.text or ...` use it.
Truthy(v) ==
    CASE v.kind = "NoneType" -> FALSE
      [] v.kind = "str" -> v.val # ""
      [] v.kind = "int" -> v.val # 0
      [] v.kind = "bool" -> v.val
      [] v.kind = "list" -> Len(v.val) > 0
      [] v.kind = "dict" -> DOMAIN v.val # {}
      [] OTHER -> TRUE

\* d.get(key, default) on a dict.
DictGet(d, key, default) ==
    IF key \in DOMAIN d.val THEN d.val[key] ELSE default

\* The message of the TypeError of str[str]: Python 3.11 and later name the
\* type of the index, earlier releases do not.
StringIndexMessage ==
    IF index_names_type
    THEN "string indices must be integers, not 'str'"
    ELSE "string indices must be integers"

\* v[key] with a string key.
Subscript(v, key) ==
    CASE v.kind = "dict" ->
            IF key \in DOMAIN v.val
            THEN Return(v.val[key])
            ELSE Raise(Builtin("KeyError", ReprStr(key)))
      [] v.kind = "list" ->
            Raise(Builtin("TypeError", "list indices must be integers or slices, not str"))
      [] v.kind = "str" ->
            Raise(Builtin("TypeError", StringIndexMessage))
      [] OTHER ->
            Raise(Builtin("TypeError", "'" \o v.kind \o "' object is not subscriptable"))

\* ---------------------------------------------------------- exceptions

\* The class hierarchy: the three named subclasses derive from
\* CODAPMetadataError; the builtin errors do not.
IsInstance(cls, base) ==
    \/ cls = base
    \/ /\ base = "CODAPMetadataError"
       /\ cls \in {"AuthenticationError", "SessionExpiredError",
                   "VersionNotSupportedError"}

\* CODAPMetadataError.__init__, also inherited by AuthenticationError and
\* SessionExpiredError.
CODAPMetadataError(cls, message, code, status_code) ==
    [cls |-> cls, message |-> message, code |-> code, status_code |-> status_code]

\* VersionNotSupportedError.__init__: super().__init__(message, code) leaves
\* status_code at its default.
VersionNotSupportedError(message, requested_version, supported_versions) ==
    [cls |-> "VersionNotSupportedError", message |-> message,
     code |-> PyStr("VERSION_NOT_SUPPORTED"), status_code |-> PyNone,
     requested_version |-> requested_version,
     supported_versions |-> supported_versions]

\* ------------------------------------------------------------ transport

\* The status codes a response may carry.
Statuses == {200, 201, 204, 302, 400, 401, 403, 404, 405, 406, 500, 503}

\* Response bodies: empty, text that is not JSON, JSON of every shape, error
\* objects, 406 objects and manifests (well formed or not).
EmptyBody == ""
TextBody == "Bad Gateway"
ArrayBody == "[]"
StringBody == "\"oops\""
NumberBody == "42"
NullBody == "null"
EmptyObjectBody == "{}"
ErrorBody == "{\"error\": \"boom\"}"
VersionBody ==
    "{\"error\": \"bad version\", \"requestedVersion\": \"2.0.0\", \"supportedVersions\": [\"1.0.0\"]}"
EchoOtherBody == "{\"requestedVersion\": \"9.9.9\"}"
SupportedOnlyBody == "{\"supportedVersions\": [\"1.0.0\", \"1.1.0\"]}"
EmptyManifestBody == "{\"apiVersion\": \"1.0.0\", \"tools\": []}"
ManifestBody ==
    "{\"apiVersion\": \"1.0.0\", \"tools\": [{\"name\": \"x\", \"description\": \"dx\", \"inputSchema\": {\"type\": \"object\"}}, {\"name\": \"y\", \"description\": \"dy\"}]}"
NoVersionManifestBody == "{\"tools\": [{\"name\": \"x\"}]}"
NoToolsManifestBody == "{\"apiVersion\": \"2.0.0\"}"
NamelessToolBody ==
    "{\"apiVersion\": \"1.0.0\", \"tools\": [{\"name\": \"x\", \"description\": \"dx\"}, {\"description\": \"orphan\"}]}"
NullToolsBody == "{\"apiVersion\": \"1.0.0\", \"tools\": null}"
ListErrorBody == "{\"error\": [\"a\"]}"
DictErrorBody == "{\"error\": {\"b\": 1, \"a\": \"x\"}}"
ListVersionBody == "{\"requestedVersion\": [\"2.0.0\"]}"
QuotedErrorBody == "{\"error\": [\"it's\", \"a\\\\b\\tc\", \"q\\\"'\"]}"
QuotedKeyBody == "{\"error\": {\"k'\": 1}}"

Bodies ==
    {EmptyBody, TextBody, ArrayBody, StringBody, NumberBody, NullBody,
     EmptyObjectBody, ErrorBody, VersionBody, EchoOtherBody, SupportedOnlyBody,
     EmptyManifestBody, ManifestBody, NoVersionManifestBody,
     NoToolsManifestBody, NamelessToolBody, NullToolsBody,
     ListErrorBody, DictErrorBody, ListVersionBody, QuotedErrorBody,
     QuotedKeyBody}

\* str() of the decoder's error on the two bodies that are not JSON, where
\* decoding fails at position 0 with "Expecting value".  The RequestException
\* of requests 2.27 is built from (msg, doc, pos) by OSError and prints as
\* errno, strerror and filename; every other error prints as the decoder's.
DecodeMessage(text) ==
    IF json_error_errno
    THEN "[Errno Expecting value] " \o text \o ": 0"
    ELSE "Expecting value: line 1 column 1 (char 0)"

\* Response.json(): the decoded body, or the decoder's failure.
JsonLoads(text) ==
    CASE text = EmptyBody -> [ok |-> FALSE, value |-> PyNone]
      [] text = TextBody -> [ok |-> FALSE, value |-> PyNone]
      [] text = ArrayBody -> [ok |-> TRUE, value |-> PyList(<<>>)]
      [] text = StringBody -> [ok |-> TRUE, value |-> PyStr("oops")]
      [] text = NumberBody -> [ok |-> TRUE, value |-> PyInt(42)]
      [] text = NullBody -> [ok |-> TRUE, value |-> PyNone]
      [] text = EmptyObjectBody -> [ok |-> TRUE, value |-> EmptyDict]
      [] text = ErrorBody ->
            [ok |-> TRUE, value |-> PyDict(<<"error">>, [error |-> PyStr("boom")])]
      [] text = VersionBody ->
            [ok |-> TRUE, value |-> PyDict(
                <<"error", "requestedVersion", "supportedVersions">>,
                [error |-> PyStr("bad version"),
                 requestedVersion |-> PyStr("2.0.0"),
                 supportedVersions |-> PyList(<<PyStr("1.0.0")>>)])]
      [] text = EchoOtherBody ->
            [ok |-> TRUE, value |-> PyDict(<<"requestedVersion">>, [requestedVersion |-> PyStr("9.9.9")])]
      [] text = SupportedOnlyBody ->
            [ok |-> TRUE, value |-> PyDict(
                <<"supportedVersions">>,
                [supportedVersions |-> PyList(<<PyStr("1.0.0"), PyStr("1.1.0")>>)])]
      [] text = EmptyManifestBody ->
            [ok |-> TRUE, value |-> PyDict(
                <<"apiVersion", "tools">>,
                [apiVersion |-> PyStr("1.0.0"), tools |-> PyList(<<>>)])]
      [] text = ManifestBody ->
            [ok |-> TRUE, value |-> PyDict(
                <<"apiVersion", "tools">>,
                [apiVersion |-> PyStr("1.0.0"),
                 tools |-> PyList(<<
                    PyDict(<<"name", "description", "inputSchema">>,
                           [name |-> PyStr("x"), description |-> PyStr("dx"),
                            inputSchema |-> PyDict(<<"type">>,
                                                   [type |-> PyStr("object")])]),
                    PyDict(<<"name", "description">>,
                           [name |-> PyStr("y"), description |-> PyStr("dy")])>>)])]
      [] text = NoVersionManifestBody ->
            [ok |-> TRUE, value |-> PyDict(
                <<"tools">>,
                [tools |-> PyList(<<PyDict(<<"name">>, [name |-> PyStr("x")])>>)])]
      [] text = NoToolsManifestBody ->
            [ok |-> TRUE, value |-> PyDict(<<"apiVersion">>, [apiVersion |-> PyStr("2.0.0")])]
      [] text = NamelessToolBody ->
            [ok |-> TRUE, value |-> PyDict(
                <<"apiVersion", "tools">>,
                [apiVersion |-> PyStr("1.0.0"),
                 tools |-> PyList(<<
                    PyDict(<<"name", "description">>,
                           [name |-> PyStr("x"), description |-> PyStr("dx")]),
                    PyDict(<<"description">>,
                           [description |-> PyStr("orphan")])>>)])]
      [] text = NullToolsBody ->
            [ok |-> TRUE, value |-> PyDict(
                <<"apiVersion", "tools">>,
                [apiVersion |-> PyStr("1.0.0"), tools |-> PyNone])]
      [] text = ListErrorBody ->
            [ok |-> TRUE, value |-> PyDict(<<"error">>,
                [error |-> PyList(<<PyStr("a")>>)])]
      [] text = DictErrorBody ->
            [ok |-> TRUE, value |-> PyDict(<<"error">>,
                [error |-> PyDict(<<"b", "a">>, [b |-> PyInt(1), a |-> PyStr("x")])])]
      [] text = QuotedErrorBody ->
            [ok |-> TRUE, value |-> PyDict(<<"error">>,
                [error |-> PyList(<<PyStr("it's"), PyStr("a\\b\tc"),
                                    PyStr("q\"'")>>)])]
      [] text = QuotedKeyBody ->
            [ok |-> TRUE, value |-> PyDict(<<"error">>,
                [error |-> PyDict(<<"k'">>, ("k'" :> PyInt(1)))])]
      [] text = ListVersionBody ->
            [ok |-> TRUE, value |-> PyDict(<<"requestedVersion">>,
                [requestedVersion |-> PyList(<<PyStr("2.0.0")>>)])]

\* A requests.Response, as far as the client reads it.
Responses == [status_code : Statuses, text : Bodies]

\* What session.get does: it returns a response or raises a
\* requests.RequestException (connection failure, timeout).
TransportErrors == {"Connection refused", "Read timed out"}
NoResponse == [status_code |-> 0, text |-> ""]
Answered(response) == [ok |-> TRUE, response |-> response, error |-> ""]
Failed(message) == [ok |-> FALSE, response |-> NoResponse, error |-> message]
TransportOutcomes ==
    {Answered(r) : r \in Responses} \cup {Failed(m) : m \in TransportErrors}

\* ------------------------------------------------ _handle_error_response

\* error_data of _handle_error_response: the decoded body, or a dict made
\* of the raw text when the body is not JSON.
ErrorData(response) ==
    LET parsed == JsonLoads(response.text)
    IN  IF parsed.ok
        THEN parsed.value
        ELSE PyDict(<<"error">>, [error |->
                IF Truthy(PyStr(response.text))
                THEN PyStr(response.text)
                ELSE PyStr("Unknown error")])

\* CODAPMetadataClient._handle_error_response: the exception it raises.
\* error_data.get exists only on a dict; on any other decoded value the
\* attribute lookup itself raises AttributeError.
handle_error_response(response) ==
    LET error_data == ErrorData(response)
        status_code == response.status_code
        status == PyInt(status_code)
    IN  IF error_data.kind # "dict"
        THEN Raise(Builtin("AttributeError",
                "'" \o error_data.kind \o "' object has no attribute 'get'"))
        ELSE
        LET error_message ==
                Format(DictGet(error_data, "error",
                        PyStr("HTTP " \o ToString(status_code) \o " error")))
        IN  CASE status_code = 400 ->
                    Raise(CODAPMetadataError("CODAPMetadataError",
                        "Bad Request: " \o error_message, PyNone, status))
              [] status_code = 401 ->
                    Raise(CODAPMetadataError("AuthenticationError",
                        "Unauthorized: " \o error_message,
                        PyStr("AUTHENTICATION_FAILED"), status))
              [] status_code = 403 ->
                    Raise(CODAPMetadataError("SessionExpiredError",
                        "Forbidden: " \o error_message,
                        PyStr("SESSION_EXPIRED"), status))
              [] status_code = 405 ->
                    Raise(CODAPMetadataError("CODAPMetadataError",
                        "Method Not Allowed: " \o error_message, PyNone, status))
              [] status_code = 406 ->
                    LET requested_version ==
                            DictGet(error_data, "requestedVersion", PyStr("unknown"))
                        supported_versions ==
                            DictGet(error_data, "supportedVersions", PyList(<<>>))
                    IN  Raise(VersionNotSupportedError(
                            "Unsupported version: " \o Format(requested_version),
                            requested_version, supported_versions))
              [] status_code = 500 ->
                    Raise(CODAPMetadataError("CODAPMetadataError",
                        "Internal Server Error: " \o error_message, PyNone, status))
              [] OTHER ->
                    Raise(CODAPMetadataError("CODAPMetadataError",
                        "HTTP " \o ToString(status_code) \o ": " \o error_message,
                        PyNone, status))

\* ------------------------------------------------------ get_tool_manifest

\* The Accept-Encoding requests gives a new Session: gzip and deflate, then
\* br when a brotli package can be imported and zstd when urllib3 2 has a
\* zstandard package.
AcceptEncodings ==
    {"gzip, deflate", "gzip, deflate, br", "gzip, deflate, zstd",
     "gzip, deflate, br, zstd"}

\* The installations the client can run on.  Only a wrapped decoder error
\* can print as an OSError, and the releases of requests that advertise zstd
\* are later than the ones whose decoder error does.
Builds ==
    {b \in [wrapped : BOOLEAN, errno : BOOLEAN, encoding : AcceptEncodings,
            names_type : BOOLEAN] :
        /\ b.errno => b.wrapped
        /\ b.encoding \in {"gzip, deflate, zstd", "gzip, deflate, br, zstd"}
                => (b.wrapped /\ ~b.errno)}

\* The headers requests.Session() starts with that the client leaves in
\* place (its own User-Agent is replaced below).
SessionDefaults ==
    ("Accept-Encoding" :> accept_encoding) @@
    ("Accept" :> "*/*") @@
    ("Connection" :> "keep-alive")

\* The headers the constructor passes to session.headers.update.
ClientHeaders ==
    ("Content-Type" :> "application/json") @@
    ("User-Agent" :> "CODAP-Metadata-Client-Python/1.0.0")

\* session.headers once the client is constructed: the update laid over
\* the defaults.
SessionHeaders == ClientHeaders @@ SessionDefaults

\* `if api_version is not None:` in the place of `if api_version:`.
VersionNotNone(api_version) == api_version.kind # "NoneType"

\* `if api_version:` of get_tool_manifest.
VersionSpecified(api_version) == Truthy(api_version)

\* The headers of the request: the per-call headers laid over the session's.
RequestHeaders(api_version) ==
    LET own == IF VersionSpecified(api_version) THEN {"Accept-Version"} ELSE {}
    IN  [h \in own \cup DOMAIN SessionHeaders |->
            IF h \in own THEN api_version.val ELSE SessionHeaders[h]]

\* What get_tool_manifest does with a response that carries status 200:
\* response.json() is returned as it is.  When the body is not JSON the
\* decoder's error is a RequestException in current releases of requests
\* (caught by the handler and re-raised as a network error) and a plain
\* ValueError in older ones (not caught).
ReadManifest(response) ==
    LET parsed == JsonLoads(response.text)
    IN  IF parsed.ok
        THEN Return(parsed.value)
        ELSE IF json_error_wrapped
             THEN Raise(CODAPMetadataError("CODAPMetadataError",
                        "Network error: " \o DecodeMessage(response.text),
                        PyNone, PyNone))
             ELSE Raise(Builtin("JSONDecodeError", DecodeMessage(response.text)))

\* CODAPMetadataClient.get_tool_manifest: the requests it hands to
\* session.get and what it returns or raises.
get_tool_manifest(api_version, transport) ==
    [requests |-> <<[headers |-> RequestHeaders(api_version)]>>,
     outcome |->
        IF ~transport.ok
        THEN Raise(CODAPMetadataError("CODAPMetadataError",
                    "Network error: " \o transport.error, PyNone, PyNone))
        ELSE IF transport.response.status_code = 200
             THEN ReadManifest(transport.response)
             ELSE handle_error_response(transport.response)]

\* ------------------------------------------------------------- the facade

\* `except <base> as e: return <default>` around a body.
Except(outcome, base, default) ==
    IF outcome.kind = "raise" /\ IsInstance(outcome.exc.cls, base)
    THEN Return(default)
    ELSE outcome

\* `for tool in manifest['tools']`: the sequence iterated over.  The bodies
\* of this model hold a list or null under "tools".
Iterate(v) ==
    CASE v.kind = "list" -> Return(v.val)
      [] v.kind \in {"NoneType", "int", "bool"} ->
            Raise(Builtin("TypeError", "'" \o v.kind \o "' object is not iterable"))

\* manifest['tools'], ready to be iterated.
ToolsOf(manifest) ==
    LET tools == Subscript(manifest, "tools")
    IN  IF tools.kind = "raise" THEN tools ELSE Iterate(tools.value)

\* any(tool['name'] == tool_name for tool in tools), from the i-th tool on:
\* it stops at the first match.
RECURSIVE AnyNamed(_, _, _)
AnyNamed(tools, tool_name, i) ==
    IF i > Len(tools)
    THEN Return(PyBool(FALSE))
    ELSE LET name == Subscript(tools[i], "name")
         IN  IF name.kind = "raise" THEN name
             ELSE IF name.value = tool_name THEN Return(PyBool(TRUE))
             ELSE AnyNamed(tools, tool_name, i + 1)

\* CODAPMetadataClient.is_tool_available
is_tool_available(tool_name, transport) ==
    LET fetched == get_tool_manifest(PyNone, transport)
        tools == ToolsOf(fetched.outcome.value)
        body == IF fetched.outcome.kind = "raise" THEN fetched.outcome
                ELSE IF tools.kind = "raise" THEN tools
                ELSE AnyNamed(tools.value, tool_name, 1)
    IN  [requests |-> fetched.requests,
         outcome |-> Except(body, "CODAPMetadataError", PyBool(FALSE))]

\* The loop of get_tool_schema, from the i-th tool on.
RECURSIVE FindSchema(_, _, _)
FindSchema(tools, tool_name, i) ==
    IF i > Len(tools)
    THEN Return(PyNone)
    ELSE LET name == Subscript(tools[i], "name")
         IN  IF name.kind = "raise" THEN name
             ELSE IF name.value = tool_name
                  THEN Return(DictGet(tools[i], "inputSchema", PyNone))
             ELSE FindSchema(tools, tool_name, i + 1)

\* CODAPMetadataClient.get_tool_schema
get_tool_schema(tool_name, transport) ==
    LET fetched == get_tool_manifest(PyNone, transport)
        tools == ToolsOf(fetched.outcome.value)
        body == IF fetched.outcome.kind = "raise" THEN fetched.outcome
                ELSE IF tools.kind = "raise" THEN tools
                ELSE FindSchema(tools.value, tool_name, 1)
    IN  [requests |-> fetched.requests,
         outcome |-> Except(body, "CODAPMetadataError", PyNone)]

\* The list comprehension of list_available_tools, from the i-th tool on.
RECURSIVE Listing(_, _, _)
Listing(tools, i, acc) ==
    IF i > Len(tools)
    THEN Return(PyList(acc))
    ELSE LET name == Subscript(tools[i], "name")
             description == Subscript(tools[i], "description")
         IN  IF name.kind = "raise" THEN name
             ELSE IF description.kind = "raise" THEN description
             ELSE Listing(tools, i + 1,
                    Append(acc, PyDict(<<"name", "description">>,
                                       [name |-> name.value,
                                        description |-> description.value])))

\* CODAPMetadataClient.list_available_tools
list_available_tools(transport) ==
    LET fetched == get_tool_manifest(PyNone, transport)
        tools == ToolsOf(fetched.outcome.value)
        body == IF fetched.outcome.kind = "raise" THEN fetched.outcome
                ELSE IF tools.kind = "raise" THEN tools
                ELSE Listing(tools.value, 1, <<>>)
    IN  [requests |-> fetched.requests,
         outcome |-> Except(body, "CODAPMetadataError", PyList(<<>>))]

\* The dataclass VersionNegotiationResult, with its defaults.
VersionNegotiationResult(success, version, error, requested_version, supported_versions, manifest) ==
    [kind |-> "VersionNegotiationResult", success |-> success,
     version |-> version, error |-> error,
     requested_version |-> requested_version,
     supported_versions |-> supported_versions, manifest |-> manifest]

\* `except CODAPMetadataError` in the place of `except VersionNotSupportedError`.
NegotiationCatchesAll == "CODAPMetadataError"

\* The class the handler of test_version_negotiation catches.
NegotiationCaught == "VersionNotSupportedError"

\* e.<name> on a caught exception: the classes other than
\* VersionNotSupportedError have no requested_version / supported_versions.
NoAttribute(exc, name) ==
    Raise(Builtin("AttributeError",
        "'" \o exc.cls \o "' object has no attribute '" \o name \o "'"))

\* The handler of test_version_negotiation: the result it builds from the
\* caught exception.
NegotiationFailure(exc) ==
    IF "requested_version" \notin DOMAIN exc
    THEN NoAttribute(exc, "requested_version")
    ELSE IF "supported_versions" \notin DOMAIN exc
    THEN NoAttribute(exc, "supported_versions")
    ELSE Return(VersionNegotiationResult(FALSE, PyNone, PyStr(exc.message),
            exc.requested_version, exc.supported_versions, PyNone))

\* CODAPMetadataClient.test_version_negotiation
test_version_negotiation(requested_version, transport) ==
    LET fetched == get_tool_manifest(requested_version, transport)
        out == fetched.outcome
        version == Subscript(out.value, "apiVersion")
    IN  [requests |-> fetched.requests,
         outcome |->
            IF out.kind = "raise"
            THEN IF IsInstance(out.exc.cls, NegotiationCaught)
                 THEN NegotiationFailure(out.exc)
                 ELSE out
            ELSE IF version.kind = "raise" THEN version
            ELSE Return(VersionNegotiationResult(TRUE, version.value,
                    PyNone, PyNone, PyNone, out.value))]

\* ---------------------------------------------------------- the system

\* What callers pass.
ApiVersions == {PyNone, PyStr(""), PyStr("1.0.0"), PyStr("1.2.0"), PyStr("2.0.0")}
RequestedVersions == {PyStr(""), PyStr("1.0.0"), PyStr("2.0.0")}
ToolNames == {PyStr("x"), PyStr("y"), PyStr("z")}

NoCall == [op |-> "none", arg |-> PyNone]

\* The client is constructed; the installed Python and requests and the answer
\* the server gives to this session are fixed by the environment.
Init ==
    /\ \E b \in Builds :
            /\ json_error_wrapped = b.wrapped
            /\ json_error_errno = b.errno
            /\ accept_encoding = b.encoding
            /\ index_names_type = b.names_type
    /\ server \in TransportOutcomes
    /\ calls = 0
    /\ sent = 0
    /\ last_call = NoCall
    /\ last_requests = <<>>
    /\ last_result = Return(PyNone)

\* A public method ran: it made its requests and the caller saw its outcome.
Ran(op, arg, run) ==
    /\ calls < MaxCalls
    /\ calls' = calls + 1
    /\ sent' = sent + Len(run.requests)
    /\ last_call' = [op |-> op, arg |-> arg]
    /\ last_requests' = run.requests
    /\ last_result' = run.outcome
    /\ UNCHANGED <<json_error_wrapped, json_error_errno, accept_encoding,
                   index_names_type, server>>

GetToolManifest ==
    \E api_version \in ApiVersions :
        Ran("get_tool_manifest", api_version,
            get_tool_manifest(api_version, server))

IsToolAvailable ==
    \E tool_name \in ToolNames :
        Ran("is_tool_available", tool_name,
            is_tool_available(tool_name, server))

GetToolSchema ==
    \E tool_name \in ToolNames :
        Ran("get_tool_schema", tool_name,
            get_tool_schema(tool_name, server))

ListAvailableTools ==
    Ran("list_available_tools", PyNone, list_available_tools(server))

TestVersionNegotiation ==
    \E requested_version \in RequestedVersions :
        Ran("test_version_negotiation", requested_version,
            test_version_negotiation(requested_version, server))

\* _handle_error_response applied to the server's response on its own: it
\* sends nothing.
HandleErrorResponse ==
    /\ server.ok
    /\ last_call' = [op |-> "_handle_error_response", arg |-> PyNone]
    /\ last_requests' = <<>>
    /\ last_result' = handle_error_response(server.response)
    /\ UNCHANGED <<json_error_wrapped, json_error_errno, accept_encoding,
                   index_names_type, server, calls, sent>>

Next ==
    \/ GetToolManifest
    \/ IsToolAvailable
    \/ GetToolSchema
    \/ ListAvailableTools
    \/ TestVersionNegotiation
    \/ HandleErrorResponse

Spec == Init /\ [][Next]_vars

\* ================================================================ claims

\* The error kinds of the specification, read off a raised exception the way
\* a caller can: by its class, and for the base class by its status code.
KindOf(exc) ==
    CASE ~IsInstance(exc.cls, "CODAPMetadataError") -> "Untyped"
      [] exc.cls = "AuthenticationError" -> "AuthenticationFailed"
      [] exc.cls = "SessionExpiredError" -> "SessionExpired"
      [] exc.cls = "VersionNotSupportedError" -> "VersionNotSupported"
      [] exc.status_code = PyNone -> "TransportError"
      [] exc.status_code = PyInt(400) -> "BadRequest"
      [] exc.status_code = PyInt(405) -> "MethodNotAllowed"
      [] exc.status_code = PyInt(500) -> "ServerError"
      [] OTHER -> "UnknownHttpError"

\* The dispatch table of the specification.
ExpectedKind(status_code) ==
    CASE status_code = 400 -> "BadRequest"
      [] status_code = 401 -> "AuthenticationFailed"
      [] status_code = 403 -> "SessionExpired"
      [] status_code = 405 -> "MethodNotAllowed"
      [] status_code = 406 -> "VersionNotSupported"
      [] status_code = 500 -> "ServerError"
      [] OTHER -> "UnknownHttpError"

Status == server.response.status_code
Body == server.response.text
Raised == last_result.kind = "raise"
Returned == last_result.kind = "return"
Typed == Raised /\ IsInstance(last_result.exc.cls, "CODAPMetadataError")
Classified == last_call.op = "_handle_error_response"
Fetched == last_call.op = "get_tool_manifest"
Negotiated == last_call.op = "test_version_negotiation"
Convenience ==
    last_call.op \in {"is_tool_available", "get_tool_schema", "list_available_tools"}

\* C1: for every response with a status outside 2xx, _handle_error_response
\* raises exactly the kind the dispatch table gives for the status (400
\* BadRequest, 401 AuthenticationFailed, 403 SessionExpired, 405
\* MethodNotAllowed, 406 VersionNotSupported, 500 ServerError, any other
\* UnknownHttpError carrying the status), whatever the body.
C1_ClassifyIsTotal ==
    (Classified /\ Status \notin 200..299) =>
        /\ Raised
        /\ KindOf(last_result.exc) = ExpectedKind(Status)
        /\ (ExpectedKind(Status) = "UnknownHttpError" =>
                last_result.exc.status_code = PyInt(Status))

\* C2: for every body (JSON of any shape, text, empty) the classifier
\* applied to a status other than 200 fails only with a typed client error.
C2_OnlyTypedErrors ==
    (Classified /\ Status # 200) => Typed

\* C3: test_version_negotiation(v) turns a VersionNotSupported failure of
\* get_tool_manifest(v) into a returned result with success = false, and
\* lets every other failure of get_tool_manifest(v) through unchanged.
C3_OnlyVersionNotSupportedIsCaught ==
    Negotiated =>
        LET fetched == get_tool_manifest(last_call.arg, server).outcome
        IN  fetched.kind = "raise" =>
                IF fetched.exc.cls = "VersionNotSupportedError"
                THEN Returned /\ last_result.value.success = FALSE
                ELSE last_result = fetched

\* C3 happens: a negotiation met a 403 and the SessionExpiredError reached
\* the caller.
C3_Witness ==
    /\ Negotiated
    /\ server.ok /\ Status = 403
    /\ Raised /\ last_result.exc.cls = "SessionExpiredError"

\* The default each convenience method returns when the fetch fails.
DefaultOf(op) ==
    CASE op = "is_tool_available" -> PyBool(FALSE)
      [] op = "get_tool_schema" -> PyNone
      [] op = "list_available_tools" -> PyList(<<>>)

\* C4: is_tool_available, get_tool_schema and list_available_tools never
\* raise, whatever the transport does and whatever the body is, and return
\* their default whenever the manifest fetch fails.
C4_ConvenienceNeverRaises ==
    Convenience =>
        /\ Returned
        /\ (get_tool_manifest(PyNone, server).outcome.kind = "raise" =>
                last_result.value = DefaultOf(last_call.op))

\* C5: a 200 response whose body cannot be decoded makes get_tool_manifest
\* fail with a typed error of its own: not a returned manifest, not a raw
\* decoder error, not a transport error nor any other kind.
C5_BodyParseIsDistinct ==
    (Fetched /\ server.ok /\ Status = 200 /\ ~JsonLoads(Body).ok) =>
        /\ Typed
        /\ KindOf(last_result.exc) \notin
                {"TransportError", "BadRequest", "AuthenticationFailed",
                 "SessionExpired", "MethodNotAllowed", "VersionNotSupported",
                 "ServerError", "UnknownHttpError"}

\* C6: every typed error produced from an HTTP response carries the status
\* of that response in status_code.
C6_StatusIsCarried ==
    ((Fetched \/ Classified) /\ server.ok /\ Status # 200 /\ Typed) =>
        last_result.exc.status_code = PyInt(Status)

\* C7: on every 406 response the error raised is VersionNotSupported; its
\* requested_version and supported_versions are the body's requestedVersion
\* and supportedVersions fields when the body has them, and "unknown" and
\* the empty list when the body is empty or malformed or lacks the field.
C7_VersionFieldsFromBody ==
    ((Fetched \/ Classified) /\ server.ok /\ Status = 406) =>
        LET parsed == JsonLoads(Body)
            fields == IF parsed.ok /\ parsed.value.kind = "dict"
                      THEN parsed.value.val ELSE <<>>
            requested == IF "requestedVersion" \in DOMAIN fields
                         THEN fields["requestedVersion"] ELSE PyStr("unknown")
            supported == IF "supportedVersions" \in DOMAIN fields
                         THEN fields["supportedVersions"] ELSE PyList(<<>>)
        IN  /\ Raised
            /\ last_result.exc.cls = "VersionNotSupportedError"
            /\ last_result.exc.requested_version = requested
            /\ last_result.exc.supported_versions = supported

\* The success branch of a result, with the failure branch unset.
IsSuccess(result) ==
    /\ result.success = TRUE
    /\ result.error = PyNone
    /\ result.requested_version = PyNone
    /\ result.supported_versions = PyNone

\* The failure branch of a result, with the success branch unset.
IsFailure(result) ==
    /\ result.success = FALSE
    /\ result.version = PyNone
    /\ result.manifest = PyNone

\* C8: for every requested version v, test_version_negotiation(v) against
\* a 406 response returns a failure whose requested_version is v, with
\* version and manifest unset; against a 200 response it returns a success
\* whose manifest is the manifest the response carries and whose version is
\* that manifest's apiVersion, with the failure fields unset; a returned
\* result has one branch populated, never both.
C8_FailureNamesRequested ==
    /\ (Negotiated /\ server.ok /\ Status = 406) =>
            /\ Returned
            /\ IsFailure(last_result.value)
            /\ last_result.value.requested_version = last_call.arg
    /\ (Negotiated /\ server.ok /\ Status = 200) =>
            LET fetched == get_tool_manifest(last_call.arg, server).outcome
            IN  /\ Returned
                /\ IsSuccess(last_result.value)
                /\ fetched.kind = "return"
                /\ last_result.value.manifest = fetched.value
                /\ fetched.value.kind = "dict"
                /\ "apiVersion" \in DOMAIN fetched.value.val
                /\ last_result.value.version = fetched.value.val["apiVersion"]
    /\ (Negotiated /\ Returned) =>
            (IsSuccess(last_result.value) \/ IsFailure(last_result.value))

\* The api_version a call hands to get_tool_manifest.
PassedVersion ==
    IF Fetched \/ Negotiated THEN last_call.arg ELSE PyNone

HasAcceptVersion == "Accept-Version" \in DOMAIN last_requests[1].headers

\* C9: the request carries Accept-Version, with the caller's value, exactly
\* when the caller provided an api_version, the empty string included.
C9_HeaderIffProvided ==
    (Fetched \/ Negotiated \/ Convenience) =>
        /\ HasAcceptVersion <=> PassedVersion # PyNone
        /\ HasAcceptVersion =>
                last_requests[1].headers["Accept-Version"] = PassedVersion.val

\* C9 as amended: the request carries Accept-Version, with the caller's
\* value, exactly when the caller provided an api_version that is not the
\* empty string.
C9_HeaderIffNonEmpty ==
    (Fetched \/ Negotiated \/ Convenience) =>
        /\ HasAcceptVersion <=>
                (PassedVersion # PyNone /\ PassedVersion # PyStr(""))
        /\ HasAcceptVersion =>
                last_requests[1].headers["Accept-Version"] = PassedVersion.val

\* C9 happens: get_tool_manifest("1.2.0") sent Accept-Version: 1.2.0.
C9_Witness ==
    /\ Fetched
    /\ last_call.arg = PyStr("1.2.0")
    /\ Len(last_requests) = 1
    /\ HasAcceptVersion
    /\ last_requests[1].headers["Accept-Version"] = "1.2.0"

\* C10: get_tool_manifest returns only on status 200; on every other
\* status it raises an error carrying that status; and every call makes
\* exactly one request.
C10_ReturnsOnlyOn200 ==
    /\ sent = calls
    /\ Fetched =>
        /\ Len(last_requests) = 1
        /\ Returned => (server.ok /\ Status = 200)
        /\ (server.ok /\ Status # 200) =>
                /\ Typed
                /\ last_result.exc.status_code = PyInt(Status)

====
